---- MODULE Spec2Model ----
(***************************************************************************)
(* Model of components/KaleidoscopeVisualizer.tsx: the audio session       *)
(* (ensureContext, connectAnalyser, playFromElement, startMic, stopAudio), *)
(* the analyser-parameter effect and the animation loop (draw).            *)
(*                                                                         *)
(* JavaScript numbers are modelled as exact rationals [n |-> , d |-> ]     *)
(* in lowest terms (IEEE rounding is not modelled).  Angles that involve   *)
(* pi and the colours of a frame are left out: no property below reads     *)
(* them.  Time is in milliseconds.                                         *)
(***************************************************************************)
EXTENDS Integers, Sequences, FiniteSets, TLC

VARIABLES
    params,            \* useState(DEFAULT_PARAMS)
    canvas,            \* canvas.width, canvas.height
    isPlaying, usingMic, usingSample,
    audioEl,           \* audioElRef.current: [src, paused]
    audioCtxRef,       \* "null" | "suspended" | "running"
    ctxCreated,        \* how many AudioContext objects were constructed
    nodes,             \* source nodes created so far: sequence of kinds
    srcNodeRef,        \* index into nodes, 0 = null
    analysers,         \* analysers created so far: sequence of [fftSize]
    analyserRef,       \* index into analysers, 0 = null
    connections,       \* set of <<source node, analyser>> edges of the audio graph
    freqDataRef,       \* Null or [length, shape]
    elementSourced,    \* audio element already has a MediaElementAudioSourceNode
    requests,          \* start requests (async functions) in flight or finished
    animationRef,      \* id of the last requested animation frame, 0 = null
    rafQueue,          \* animation-frame requests the scheduler still holds
    nextRafId,
    lastStamp,         \* timestamp the scheduler gave to the latest frame
    rotationRef, beatEnergyAvgRef,
    \* locals of the latest run of draw, and what it painted
    dt, energy, beatBoost, segCount, wedges, barLines,
    elapsedMs,         \* now - lastTime of the latest frame
    frameBound,        \* whether the latest frame found an analyser and a buffer
    frameParams,       \* the params its closure holds
    frameData,         \* freqData as it read it
    frameCanvas,       \* the canvas size it read
    prev,              \* beatEnergyAvgRef.current as the latest frame found it
    rotationBefore,    \* rotationRef.current as the latest frame found it
    energyBefore, boostBefore,   \* energy and beatBoost of the frame before the latest
    frames, paramChanges, resizes, log,
    mounted            \* the component is mounted: its effects are set up

vars == <<params, canvas, isPlaying, usingMic, usingSample, audioEl, audioCtxRef,
          ctxCreated, nodes, srcNodeRef, analysers, analyserRef, connections,
          freqDataRef, elementSourced, requests, animationRef, rafQueue, nextRafId,
          lastStamp, rotationRef, beatEnergyAvgRef, dt, energy, beatBoost, segCount,
          wedges, barLines, elapsedMs, frameBound, frameParams, frameData, frameCanvas,
          prev, rotationBefore, energyBefore, boostBefore, frames, paramChanges,
          resizes, log, mounted>>

audioVars == <<isPlaying, usingMic, usingSample, audioEl, audioCtxRef, ctxCreated,
               nodes, srcNodeRef, analysers, analyserRef, connections,
               elementSourced, requests, log>>

frameVars == <<rotationRef, beatEnergyAvgRef, dt, energy, beatBoost, segCount,
               wedges, barLines, elapsedMs, frameBound, frameParams, frameData,
               frameCanvas, prev, rotationBefore, energyBefore, boostBefore, frames,
               lastStamp>>

(***************************************************************************)
(* Bounds of the model.                                                    *)
(***************************************************************************)
MaxFrames == 3
MaxParamChanges == 1
MaxRequests == 3
MaxResizes == 1

(***************************************************************************)
(* JavaScript number arithmetic, exact.                                    *)
(***************************************************************************)
Abs(x) == IF x < 0 THEN -x ELSE x

RECURSIVE GCD(_, _)
GCD(a, b) == IF b = 0 THEN a ELSE GCD(b, a % b)

Rat(n, d) ==
    LET g == GCD(Abs(n), Abs(d))
        s == IF d < 0 THEN -1 ELSE 1
    IN  [n |-> s * (n \div g), d |-> s * (d \div g)]

Zero == Rat(0, 1)
One == Rat(1, 1)

LCM(a, b) == (a \div GCD(a, b)) * b

\* numerators of a and b over their common denominator
OverCommon(a, b) ==
    LET l == LCM(a.d, b.d)
    IN  [x |-> a.n * (l \div a.d), y |-> b.n * (l \div b.d), l |-> l]

RAdd(a, b) == LET c == OverCommon(a, b) IN Rat(c.x + c.y, c.l)
RSub(a, b) == LET c == OverCommon(a, b) IN Rat(c.x - c.y, c.l)
RMul(a, b) ==
    LET g1 == GCD(Abs(a.n), b.d)
        g2 == GCD(Abs(b.n), a.d)
    IN  Rat((a.n \div g1) * (b.n \div g2), (a.d \div g2) * (b.d \div g1))
RLe(a, b) == LET c == OverCommon(a, b) IN c.x <= c.y
RLt(a, b) == LET c == OverCommon(a, b) IN c.x < c.y
RMin(a, b) == IF RLe(a, b) THEN a ELSE b
RMax(a, b) == IF RLe(a, b) THEN b ELSE a
RAbs(a) == [n |-> Abs(a.n), d |-> a.d]
\* Math.floor
Floor(a) == a.n \div a.d
IMin(a, b) == IF a <= b THEN a ELSE b

(***************************************************************************)
(* Parameters and the values the control surface can store.                *)
(***************************************************************************)
Null == [length |-> 0, shape |-> "null"]

\* bloom, baseHue and smoothing only feed colours and the analyser's smoothing
DEFAULT_PARAMS ==
    [segments |-> Rat(12, 1), rotationSpeed |-> Rat(35, 100),
     sensitivity |-> Rat(12, 10), fftSize |-> 1024, mirror |-> TRUE]

\* params.segments is a number: values outside the slider's range and
\* non-integers are included, the clamp in draw is written for them
SegmentsInputs == {Rat(-7, 2), Rat(5, 2), Rat(99, 2)}
RotationSpeedInputs == {Rat(0, 1)}
SensitivityInputs == {Rat(1, 5)}
FftSizeInputs == {256}
\* params.fftSize is a number: a value the analyser refuses (not a power of two
\* it supports) is included, the try/catch of the analyser effect is written for it
RejectedFftSizes == {100}
\* what the controls themselves offer: the options of the FFT select, and
\* positions of the Segments slider (4..36, step 1), an odd one among them
FftSizeOptions == {256, 512, 1024, 2048, 4096, 8192}
SegmentsSlider == {Rat(5, 1), Rat(36, 1)}
CanvasSizes == {<<0, 0>>, <<200, 100>>}

\* spectra getByteFrequencyData can write: silence, the low half of the bins
\* at full scale, every bin at full scale
Shapes == {"zero", "low", "full"}
\* milliseconds from the latest frame timestamp to the next one
FrameGaps == {0, 20, 80}
\* milliseconds from the latest frame timestamp to a performance.now() call
NowOffsets == {0, 10}

(***************************************************************************)
(* draw: the pure parts.                                                   *)
(***************************************************************************)
bars == 96

\* A Uint8Array is held as its length and its runs of equal bytes:
\* <<first index, index after the last, byte>>
Runs(fd) ==
    CASE fd.shape = "zero" -> <<<<0, fd.length, 0>>>>
      [] fd.shape = "full" -> <<<<0, fd.length, 255>>>>
      [] fd.shape = "low" -> <<<<0, fd.length \div 2, 255>>, <<fd.length \div 2, fd.length, 0>>>>

\* freqData[i]
FreqAt(fd, i) ==
    LET rs == Runs(fd)
        k == CHOOSE k \in DOMAIN rs : rs[k][1] <= i /\ i < rs[k][2]
    IN  rs[k][3]

\* for (let i = 0; i < freqData.length; i++) sum += freqData[i], run by run
RECURSIVE SumRuns(_, _)
SumRuns(rs, k) ==
    IF k > Len(rs) THEN 0 ELSE (rs[k][2] - rs[k][1]) * rs[k][3] + SumRuns(rs, k + 1)

\* energy = sum / freqData.length / 255
Energy(fd) == RMul(Rat(SumRuns(Runs(fd), 1), fd.length), Rat(1, 255))

alpha == Rat(9, 10)

\* a variant of RollingAvg: the new energy is added unweighted
RollingAvg_NoWeight(p, e) == RAdd(RMul(p, alpha), e)

\* avg = prev * alpha + energy * (1 - alpha)
RollingAvg(p, e) == RAdd(RMul(p, alpha), RMul(e, RSub(One, alpha)))

\* variants of BeatBoost: the difference taken the other way round; no Math.max
BeatBoost_Reversed(e, avg) == RMul(RMax(Zero, RSub(avg, e)), Rat(22, 10))
BeatBoost_NoFloor(e, avg) == RMul(RSub(e, avg), Rat(22, 10))

\* diff = Math.max(0, energy - avg); beatBoost = diff * 2.2
BeatBoost(e, avg) == RMul(RMax(Zero, RSub(e, avg)), Rat(22, 10))

\* a variant of ClampDt: no Math.min
ClampDt_Unclamped(now, lastTime) == Rat(now - lastTime, 1000)

\* dt = Math.min(0.05, (now - lastTime) / 1000)
ClampDt(now, lastTime) == RMin(Rat(5, 100), Rat(now - lastTime, 1000))

\* variants of NextRotation: only the base speed is scaled by dt; dt is not used
NextRotation_BoostNotScaled(rot, speed, boost, d) ==
    RAdd(rot, RAdd(RMul(speed, d), RMul(boost, Rat(8, 10))))
NextRotation_NoDt(rot, speed, boost, d) ==
    RAdd(rot, RAdd(speed, RMul(boost, Rat(8, 10))))

\* rotationRef.current += (params.rotationSpeed + beatBoost * 0.8) * dt
NextRotation(rot, speed, boost, d) ==
    RAdd(rot, RMul(RAdd(speed, RMul(boost, Rat(8, 10))), d))

\* a variant of SegCount: no Math.min(48, ...)
SegCount_NoUpperClamp(segments) == IF Floor(segments) > 2 THEN Floor(segments) ELSE 2

\* segCount = Math.max(2, Math.min(48, Math.floor(params.segments)))
SegCount(segments) ==
    LET f == Floor(segments)
        m == IF f < 48 THEN f ELSE 48
    IN  IF m > 2 THEN m ELSE 2

\* if (params.mirror && i % 2 === 1) ctx.scale(-1, 1)
Mirrored(mirror, i) == mirror /\ i % 2 = 1

\* for (let i = 0; i < segCount; i++): the wedges of one frame, in drawing order
RECURSIVE Wedges(_, _, _)
Wedges(i, n, mirror) ==
    IF i < n
    THEN <<[index |-> i, mirrored |-> Mirrored(mirror, i)]>> \o Wedges(i + 1, n, mirror)
    ELSE <<>>

\* a variant of BinIndex: the position is rounded to the nearest bin
BinIndex_Rounded(j, length) ==
    IMin(length - 1, (2 * j * length + (bars - 1)) \div (2 * (bars - 1)))

\* idx = Math.min(freqData.length - 1, Math.floor(t * freqData.length)), t = j / (bars - 1)
\* (t * length is the rational j * length / (bars - 1), so its floor is the integer quotient)
BinIndex(j, length) == IMin(length - 1, (j * length) \div (bars - 1))

\* Math.pow(bin, 1.3) for bin = byte / 255; the spectra above only hold 0 and 255
Pow13(byte) == CASE byte = 0 -> Zero [] byte = 255 -> One

\* mag = Math.pow(bin, 1.3) * params.sensitivity
Mag(byte, sensitivity) == RMul(Pow13(byte), sensitivity)

\* r0 = innerRadius * (0.8 + energy * 0.4)
BarR0(innerRadius, e) == RMul(innerRadius, RAdd(Rat(8, 10), RMul(e, Rat(4, 10))))

\* a variant of BarR1: every bar gets a minimum visible length
BarR1_MinLength(r0, maxRadius, mag, boost) ==
    RAdd(r0, RMul(RSub(maxRadius, r0),
                  RMin(One, RMax(Rat(2, 100), RMul(mag, RAdd(Rat(9, 10), boost))))))

\* r1 = r0 + (maxRadius - r0) * Math.min(1.0, mag * (0.9 + beatBoost))
BarR1(r0, maxRadius, mag, boost) ==
    RAdd(r0, RMul(RSub(maxRadius, r0), RMin(One, RMul(mag, RAdd(Rat(9, 10), boost)))))

MinDim(c) == IMin(c[1], c[2])
InnerRadius(c) == RMul(Rat(MinDim(c), 1), Rat(6, 100))
MaxRadius(c) == RMul(Rat(MinDim(c), 1), Rat(48, 100))

\* the bytes a buffer holds; without a buffer a bar reads bin = 0
Bytes(fd) == IF fd = Null THEN {0} ELSE {rn[3] : rn \in {Runs(fd)[k] : k \in DOMAIN Runs(fd)}}

\* r1 of a bar as a function of the byte it reads (r1 depends on the bar only
\* through that byte)
R1Table(fd, r0, maxRadius, boost, sensitivity) ==
    [b \in Bytes(fd) |-> BarR1(r0, maxRadius, Mag(b, sensitivity), boost)]

\* for (let j = 0; j < bars; j++): the bars of a wedge, lines 229-243.  No
\* statement of the wedge loop changes what a bar reads, so every wedge of a
\* frame gets these.
BarLines(fd, r0, r1) ==
    [j \in 0..(bars - 1) |->
        LET idx == IF fd = Null THEN -1 ELSE BinIndex(j, fd.length)
            byte == IF fd = Null THEN 0 ELSE FreqAt(fd, idx)
        IN  [idx |-> idx, byte |-> byte, r0 |-> r0, r1 |-> r1[byte]]]

(***************************************************************************)
(* The audio graph.                                                        *)
(***************************************************************************)
SAMPLE_URL == "sample"

\* AnalyserNode.fftSize accepts a power of two in [32, 32768], else it throws
FftValid(v) == v \in {32, 64, 128, 256, 512, 1024, 2048, 4096, 8192, 16384, 32768}

\* node.disconnect(): every outgoing edge of the node goes
Disconnect(conn, node) == {e \in conn : e[1] # node}

\* sources with an edge into an analyser
ConnectedSources(conn) == {e[1] : e \in conn}

\* connectAnalyser(source) with the params of the render that made the handler:
\* the graph, refs and log after it, and whether it returned (ok) or threw
ConnectAnalyser(source, fft, conn, lg) ==
    LET an == Len(analysers) + 1
    IN  IF FftValid(fft)
        THEN [analysers |-> Append(analysers, [fftSize |-> fft]),
              connections |-> conn \cup {<<source, an>>},
              analyserRef |-> an,
              freqDataRef |-> [length |-> fft \div 2, shape |-> "zero"],
              log |-> Append(lg, <<"connect", source>>),
              ok |-> TRUE]
        ELSE [analysers |-> Append(analysers, [fftSize |-> 2048]),
              connections |-> conn,
              analyserRef |-> analyserRef,
              freqDataRef |-> freqDataRef,
              log |-> lg,
              ok |-> FALSE]

\* a variant of DisconnectCurrent: the previous node is left connected
DisconnectCurrent_Skipped(conn) == conn

\* srcNodeRef.current?.disconnect()
DisconnectCurrent(conn) == IF srcNodeRef = 0 THEN conn ELSE Disconnect(conn, srcNodeRef)
LogDisconnect(lg) == IF srcNodeRef = 0 THEN lg ELSE Append(lg, <<"disconnect", srcNodeRef>>)

SetPc(i, pc) == [requests EXCEPT ![i].pc = pc]

(***************************************************************************)
(* Init: the component after mount (effects at lines 48, 74 and 154 ran).  *)
(***************************************************************************)
Init ==
    /\ params = DEFAULT_PARAMS
    /\ canvas \in CanvasSizes
    /\ isPlaying = FALSE /\ usingMic = FALSE /\ usingSample = FALSE
    /\ audioEl = [src |-> "", paused |-> TRUE]
    /\ audioCtxRef = "null" /\ ctxCreated = 0
    /\ nodes = <<>> /\ srcNodeRef = 0
    /\ analysers = <<>> /\ analyserRef = 0
    /\ connections = {}
    /\ freqDataRef = Null
    /\ elementSourced = FALSE
    /\ requests = <<>>
    /\ log = <<>>
    /\ lastStamp = 0
    /\ \E off \in NowOffsets :
          rafQueue = {[id |-> 1, params |-> DEFAULT_PARAMS, lastTime |-> off]}
    /\ animationRef = 1 /\ nextRafId = 2
    /\ rotationRef = Zero /\ beatEnergyAvgRef = Zero
    /\ dt = Zero /\ energy = Zero /\ beatBoost = Zero
    /\ segCount = 0 /\ wedges = <<>> /\ barLines = <<>> /\ frameBound = FALSE
    /\ frameParams = DEFAULT_PARAMS /\ frameData = Null /\ frameCanvas = <<0, 0>>
    /\ elapsedMs = 0
    /\ prev = Zero /\ rotationBefore = Zero /\ energyBefore = Zero /\ boostBefore = Zero
    /\ frames = 0 /\ paramChanges = 0 /\ resizes = 0
    /\ mounted = TRUE

(***************************************************************************)
(* The animation loop.                                                     *)
(***************************************************************************)
\* if (analyser && freqData)
HasAudio(an, fd) == an # 0 /\ fd # Null

\* draw(now), called by the scheduler for the request r; the timestamp and the
\* spectrum the analyser holds are the inputs
Draw(r, gaps, shapes) ==
    /\ frames < MaxFrames
    /\ \E shape \in shapes :
        LET bound == HasAudio(analyserRef, freqDataRef)
        IN  /\ (~bound => shape = "zero")
            /\ \E fd \in {IF bound THEN [freqDataRef EXCEPT !.shape = shape] ELSE freqDataRef} :
               \E e \in {IF bound THEN Energy(fd) ELSE Zero} :
               \E avg \in {IF bound THEN RollingAvg(beatEnergyAvgRef, e) ELSE beatEnergyAvgRef} :
               \E boost \in {IF bound THEN BeatBoost(e, avg) ELSE Zero} :
               \E n \in {SegCount(r.params.segments)} :
               \E r0 \in {BarR0(InnerRadius(canvas), e)} :
               \E r1 \in {R1Table(fd, r0, MaxRadius(canvas), boost, r.params.sensitivity)} :
               \E lines \in {BarLines(fd, r0, r1)} :
               \E ws \in {Wedges(0, n, r.params.mirror)} :
               \E gap \in gaps :
               \E now \in {lastStamp + gap} :
               \E d \in {ClampDt(now, r.lastTime)} :
                  /\ lastStamp' = now
                  /\ dt' = d
                  /\ freqDataRef' = fd
                  /\ energy' = e
                  /\ beatEnergyAvgRef' = avg
                  /\ beatBoost' = boost
                  /\ frameBound' = bound
                  /\ frameParams' = r.params
                  /\ frameData' = fd
                  /\ frameCanvas' = canvas
                  /\ elapsedMs' = now - r.lastTime
                  /\ prev' = beatEnergyAvgRef
                  /\ rotationBefore' = rotationRef
                  /\ energyBefore' = energy
                  /\ boostBefore' = beatBoost
                  /\ rotationRef' = NextRotation(rotationRef, r.params.rotationSpeed, boost, d)
                  /\ segCount' = n
                  /\ wedges' = ws
                  /\ barLines' = lines
                  /\ animationRef' = nextRafId
                  /\ rafQueue' = (rafQueue \ {r}) \cup
                                  {[id |-> nextRafId, params |-> r.params, lastTime |-> now]}
                  /\ nextRafId' = nextRafId + 1
                  /\ frames' = frames + 1
    /\ UNCHANGED <<params, canvas, audioVars, paramChanges, resizes, mounted>>

Frame == \E r \in rafQueue : Draw(r, FrameGaps, Shapes)

\* a variant of CancelPending: the pending request is left with the scheduler
CancelPending_Skipped(queue, ref) == queue

\* if (animationRef.current) cancelAnimationFrame(animationRef.current)
CancelPending(queue, ref) == {q \in queue : ref = 0 \/ q.id # ref}

\* setParams(p2) and the effects of the render it causes: the analyser effect
\* (lines 60-71, when fftSize changed), then the loop's cleanup and restart
ApplyParams(p2) ==
    /\ mounted
    /\ paramChanges < MaxParamChanges
    /\ paramChanges' = paramChanges + 1
    /\ params' = p2
    /\ IF /\ p2.fftSize # params.fftSize
          /\ analyserRef # 0
          /\ analysers[analyserRef].fftSize # p2.fftSize
          /\ FftValid(p2.fftSize)
       THEN /\ analysers' = [analysers EXCEPT ![analyserRef].fftSize = p2.fftSize]
            /\ freqDataRef' = [length |-> p2.fftSize \div 2, shape |-> "zero"]
       ELSE UNCHANGED <<analysers, freqDataRef>>
    /\ \E off \in NowOffsets :
          rafQueue' = CancelPending(rafQueue, animationRef)
                       \cup {[id |-> nextRafId, params |-> p2, lastTime |-> lastStamp + off]}
    /\ animationRef' = nextRafId
    /\ nextRafId' = nextRafId + 1
    /\ UNCHANGED <<canvas, isPlaying, usingMic, usingSample, audioEl, audioCtxRef,
                   ctxCreated, nodes, srcNodeRef, analyserRef, connections,
                   elementSourced, requests, log, frameVars, resizes,
                   mounted>>

SetSegments == \E v \in SegmentsInputs : ApplyParams([params EXCEPT !.segments = v])
SetRotationSpeed == \E v \in RotationSpeedInputs : ApplyParams([params EXCEPT !.rotationSpeed = v])
SetSensitivity == \E v \in SensitivityInputs : ApplyParams([params EXCEPT !.sensitivity = v])
SetFftSize == \E v \in FftSizeInputs : ApplyParams([params EXCEPT !.fftSize = v])
SetFftSizeRejected == \E v \in RejectedFftSizes : ApplyParams([params EXCEPT !.fftSize = v])
\* onChange of the FFT select and of the Segments slider: fired by a new value
PickFftSize ==
    \E v \in FftSizeOptions \ {params.fftSize} : ApplyParams([params EXCEPT !.fftSize = v])
SlideSegments ==
    \E v \in SegmentsSlider \ {params.segments} : ApplyParams([params EXCEPT !.segments = v])
\* the checkbox stores e.target.checked, the negation of what it showed
SetMirror == ApplyParams([params EXCEPT !.mirror = ~params.mirror])

\* the ResizeObserver callback
Resize ==
    /\ mounted
    /\ resizes < MaxResizes
    /\ resizes' = resizes + 1
    /\ \E c \in CanvasSizes : c # canvas /\ canvas' = c
    /\ UNCHANGED <<params, audioVars, freqDataRef, animationRef, rafQueue, nextRafId,
                   frameVars, paramChanges, mounted>>

\* the component unmounts: the cleanups of the three effects (lines 51-55, 86,
\* 289-291); the refs keep their objects except audioElRef
Unmount ==
    /\ mounted
    /\ mounted' = FALSE
    /\ audioEl' = [src |-> "", paused |-> TRUE]
    /\ rafQueue' = CancelPending(rafQueue, animationRef)
    /\ UNCHANGED <<params, canvas, isPlaying, usingMic, usingSample, audioCtxRef,
                   ctxCreated, nodes, srcNodeRef, analysers, analyserRef, connections,
                   freqDataRef, elementSourced, requests, log, animationRef, nextRafId,
                   frameVars, paramChanges, resizes>>

(***************************************************************************)
(* Start requests.  Each is an async function: it runs to its next await   *)
(* in one step and is resumed by the promise it awaits.                    *)
(***************************************************************************)
\* lines 111-116 of playFromElement, up to await audio.play()
PlayBody(src) ==
    /\ usingMic' = FALSE
    /\ usingSample' = (src = SAMPLE_URL)
    /\ audioEl' = [src |-> src, paused |-> FALSE]

\* if (!audioCtxRef.current) audioCtxRef.current = new AudioContext(): the state
\* of the context ensureContext then looks at
ContextStates(ctx) == IF ctx = "null" THEN {"suspended", "running"} ELSE {ctx}

\* a variant of AfterEnsure: a suspended context is not waited for
AfterEnsure_NoAwait(st, kind) == IF kind = "play" THEN "play" ELSE "gum"

\* where the request stands after the synchronous part of ensureContext: at
\* await resume() when the context is suspended, else at its own next await
AfterEnsure(st, kind) ==
    IF st = "suspended" THEN "resume" ELSE IF kind = "play" THEN "play" ELSE "gum"

\* a handler calls playFromElement / startMic: ensureContext runs; a new context
\* starts suspended or running (autoplay policy); a suspended one is resumed
\* and the request waits for it, otherwise the request goes on to its next await
Start(kind, src) ==
    /\ mounted
    /\ Len(requests) < MaxRequests
    /\ \E st \in ContextStates(audioCtxRef) :
          /\ audioCtxRef' = st
          /\ ctxCreated' = IF audioCtxRef = "null" THEN ctxCreated + 1 ELSE ctxCreated
          /\ LET pc == AfterEnsure(st, kind)
             IN  /\ requests' = Append(requests, [kind |-> kind, src |-> src, pc |-> pc,
                                                  fftSize |-> params.fftSize])
                 /\ IF pc = "play"
                    THEN PlayBody(src)
                    ELSE UNCHANGED <<usingMic, usingSample, audioEl>>
    /\ UNCHANGED <<params, canvas, isPlaying, nodes, srcNodeRef, analysers, analyserRef,
                   connections, freqDataRef, elementSourced, log, animationRef,
                   rafQueue, nextRafId, frameVars, paramChanges, resizes, mounted>>

\* onClick of "Load Sample"
ClickLoadSample == Start("play", SAMPLE_URL)
\* onChange of the file input: onFilePicked
OnFilePicked == Start("play", "file")
\* onClick of "Mic"
ClickMic == Start("mic", "")
\* onClick of the Play/Pause button while paused
ClickPlay ==
    /\ ~isPlaying
    /\ ~usingMic
    /\ Start("play", IF usingSample THEN SAMPLE_URL
                     ELSE IF audioEl.src # "" THEN audioEl.src ELSE SAMPLE_URL)

\* stopAudio, from the Play/Pause button while playing
StopAudio ==
    /\ mounted
    /\ isPlaying
    /\ isPlaying' = FALSE
    /\ audioEl' = [audioEl EXCEPT !.paused = TRUE]
    /\ UNCHANGED <<params, canvas, usingMic, usingSample, audioCtxRef, ctxCreated, nodes,
                   srcNodeRef, analysers, analyserRef, connections, freqDataRef,
                   elementSourced, requests, log, animationRef, rafQueue, nextRafId,
                   frameVars, paramChanges, resizes, mounted>>

\* audioCtxRef.current.resume() resolved: ensureContext returns
ResumeDone(i) ==
    /\ requests[i].pc = "resume"
    /\ audioCtxRef' = "running"
    /\ IF requests[i].kind = "play"
       THEN IF mounted
            THEN /\ PlayBody(requests[i].src)
                 /\ requests' = SetPc(i, "play")
            ELSE \* audioElRef.current is null after the unmount: audio.src throws
                 /\ requests' = SetPc(i, "failed")
                 /\ UNCHANGED <<usingMic, usingSample, audioEl>>
       ELSE /\ requests' = SetPc(i, "gum")
            /\ UNCHANGED <<usingMic, usingSample, audioEl>>
    /\ UNCHANGED <<params, canvas, isPlaying, ctxCreated, nodes, srcNodeRef, analysers,
                   analyserRef, connections, freqDataRef, elementSourced, log,
                   animationRef, rafQueue, nextRafId, frameVars, paramChanges, resizes, mounted>>

\* a promise the request awaits is rejected (play aborted or refused, microphone
\* refused): the async function ends there
Rejected(i) ==
    /\ requests[i].pc \in {"play", "gum"}
    /\ requests' = SetPc(i, "failed")
    /\ UNCHANGED <<params, canvas, isPlaying, usingMic, usingSample, audioEl, audioCtxRef,
                   ctxCreated, nodes, srcNodeRef, analysers, analyserRef, connections,
                   freqDataRef, elementSourced, log, animationRef, rafQueue, nextRafId,
                   frameVars, paramChanges, resizes, mounted>>

\* await audio.play() resolved: lines 117-124 of playFromElement; the unmount
\* pauses the element and clears its src, which aborts a pending play()
PlayResolved(i) ==
    /\ mounted
    /\ requests[i].pc = "play"
    /\ IF srcNodeRef = 0 \/ nodes[srcNodeRef] # "element"
       THEN LET conn == DisconnectCurrent(connections)
                lg == LogDisconnect(log)
                node == Len(nodes) + 1
                c == ConnectAnalyser(node, requests[i].fftSize, conn, lg)
            IN  IF elementSourced
                THEN \* createMediaElementSource throws: the element has a node already
                     /\ connections' = conn
                     /\ log' = lg
                     /\ requests' = SetPc(i, "failed")
                     /\ UNCHANGED <<nodes, srcNodeRef, analysers, analyserRef,
                                    freqDataRef, elementSourced, isPlaying>>
                ELSE /\ nodes' = Append(nodes, "element")
                     /\ elementSourced' = TRUE
                     /\ srcNodeRef' = node
                     /\ analysers' = c.analysers
                     /\ connections' = c.connections
                     /\ analyserRef' = c.analyserRef
                     /\ freqDataRef' = c.freqDataRef
                     /\ log' = c.log
                     /\ isPlaying' = (c.ok \/ isPlaying)
                     /\ requests' = SetPc(i, IF c.ok THEN "done" ELSE "failed")
       ELSE /\ isPlaying' = TRUE
            /\ requests' = SetPc(i, "done")
            /\ UNCHANGED <<nodes, srcNodeRef, analysers, analyserRef, connections,
                           freqDataRef, elementSourced, log>>
    /\ UNCHANGED <<params, canvas, usingMic, usingSample, audioEl, audioCtxRef, ctxCreated,
                   animationRef, rafQueue, nextRafId, frameVars, paramChanges, resizes, mounted>>

\* await getUserMedia resolved: lines 130-137 of startMic; a state setter of
\* an unmounted component does nothing
GumResolved(i) ==
    /\ requests[i].pc = "gum"
    /\ LET node == Len(nodes) + 1
           c == ConnectAnalyser(node, requests[i].fftSize,
                                DisconnectCurrent(connections), LogDisconnect(log))
       IN  /\ usingMic' = (mounted \/ usingMic)
           /\ usingSample' = (~mounted /\ usingSample)
           /\ nodes' = Append(nodes, "stream")
           /\ srcNodeRef' = node
           /\ analysers' = c.analysers
           /\ connections' = c.connections
           /\ analyserRef' = c.analyserRef
           /\ freqDataRef' = c.freqDataRef
           /\ log' = c.log
           /\ isPlaying' = ((c.ok /\ mounted) \/ isPlaying)
           /\ requests' = SetPc(i, IF c.ok THEN "done" ELSE "failed")
    /\ UNCHANGED <<params, canvas, audioEl, audioCtxRef, ctxCreated, elementSourced,
                   animationRef, rafQueue, nextRafId, frameVars, paramChanges, resizes, mounted>>

Resume == \E i \in DOMAIN requests : ResumeDone(i)
Reject == \E i \in DOMAIN requests : Rejected(i)
PlayStarted == \E i \in DOMAIN requests : PlayResolved(i)
MicGranted == \E i \in DOMAIN requests : GumResolved(i)

\* the whole component
Next ==
    \/ Frame
    \/ SetSegments
    \/ SetRotationSpeed
    \/ SetSensitivity
    \/ SetFftSize
    \/ SetMirror
    \/ Resize
    \/ ClickLoadSample
    \/ OnFilePicked
    \/ ClickMic
    \/ ClickPlay
    \/ StopAudio
    \/ Resume
    \/ Reject
    \/ PlayStarted
    \/ MicGranted
    \/ Unmount

Spec == Init /\ [][Next]_vars

\* the first request of a session is a sample load
LoadSampleOnce == requests = <<>> /\ ClickLoadSample

\* the animation loop and the control surface around one sample load
NextRender ==
    \/ Frame
    \/ SetSegments
    \/ SetRotationSpeed
    \/ SetSensitivity
    \/ SetFftSize
    \/ SetMirror
    \/ LoadSampleOnce
    \/ Resume
    \/ PlayStarted

SpecRender == Init /\ [][NextRender]_vars

\* the audio session alone: every start request, pause, and the promises
NextSession ==
    \/ ClickLoadSample
    \/ OnFilePicked
    \/ ClickMic
    \/ ClickPlay
    \/ StopAudio
    \/ Resume
    \/ Reject
    \/ PlayStarted
    \/ MicGranted

SpecSession == Init /\ [][NextSession]_vars

\* frames at a steady 50 per second; a bound source plays at full scale
FrameSteady ==
    \E r \in rafQueue :
        Draw(r, {20}, IF HasAudio(analyserRef, freqDataRef) THEN {"full"} ELSE {"zero"})

\* the life of the animation loop: frames, a parameter change, sources being
\* started, paused and switched, and the unmount
NextLoop ==
    \/ FrameSteady
    \/ SetMirror
    \/ LoadSampleOnce
    \/ ClickMic
    \/ ClickPlay
    \/ StopAudio
    \/ Resume
    \/ PlayStarted
    \/ MicGranted
    \/ Unmount

SpecLoop == Init /\ [][NextLoop]_vars

\* resolution changes, accepted and refused, around the start of two sources
NextResolution ==
    \/ FrameSteady
    \/ SetFftSize
    \/ SetFftSizeRejected
    \/ LoadSampleOnce
    \/ ClickMic
    \/ Resume
    \/ PlayStarted
    \/ MicGranted

SpecResolution == Init /\ [][NextResolution]_vars

\* the controls as they are offered, around one sample load
NextControls ==
    \/ FrameSteady
    \/ PickFftSize
    \/ SlideSegments
    \/ SetMirror
    \/ LoadSampleOnce
    \/ Resume
    \/ PlayStarted

SpecControls == Init /\ [][NextControls]_vars

(***************************************************************************)
(* Properties of the animation loop (SpecRender).                          *)
(***************************************************************************)
AllZero(fd) == \A k \in DOMAIN Runs(fd) : Runs(fd)[k][3] = 0

\* C1: on every rendered frame, whatever params.segments holds (below 2, above
\* 48, not an integer), segCount is an integer in [2,48] and exactly segCount
\* wedges, numbered 0..segCount-1, are drawn.
C1_SegCountClamped ==
    frames > 0 =>
        /\ segCount \in 2..48
        /\ Len(wedges) = segCount
        /\ \A k \in 1..Len(wedges) : wedges[k].index = k - 1

\* a frame drawn with params.segments = 49.5: 48 wedges
C1_Witness ==
    /\ frames > 0
    /\ frameParams.segments = Rat(99, 2)
    /\ segCount = 48
    /\ Len(wedges) = 48

\* C2: with rotationSpeed >= 0 the rotation never decreases over a frame, for
\* every timestamp the loop can receive, the first frame after the loop was
\* set up or restarted included.
C2_RotationNeverDecreases ==
    (frames > 0 /\ RLe(Zero, frameParams.rotationSpeed)) => RLe(rotationBefore, rotationRef)

\* C3: the dt of a frame is at most 0.05 s whatever the gap between the
\* timestamps, so a frame adds at most (rotationSpeed + 0.8 * peak) * 0.05 to
\* the rotation.
C3_DtClamped ==
    frames > 0 =>
        /\ RLe(dt, Rat(5, 100))
        /\ RLe(RSub(rotationRef, rotationBefore),
               RMul(RAdd(frameParams.rotationSpeed, RMul(beatBoost, Rat(8, 10))), Rat(5, 100)))

\* a frame 80 ms after the one before, with a positive peak
C3_Witness ==
    /\ frames > 0
    /\ elapsedMs = 80
    /\ dt = Rat(5, 100)
    /\ RLt(Zero, beatBoost)
    /\ RLt(rotationBefore, rotationRef)

\* C4: a frame with dt = 0 leaves the rotation as it was, for every
\* rotationSpeed and every peak.
C4_ZeroDtKeepsRotation ==
    (frames > 0 /\ dt = Zero) => rotationRef = rotationBefore

\* a frame with dt = 0, a positive speed and a positive peak, after the rotation
\* had moved
C4_Witness ==
    /\ frames > 1
    /\ dt = Zero
    /\ RLt(Zero, frameParams.rotationSpeed)
    /\ RLt(Zero, beatBoost)
    /\ rotationRef # Zero

\* C5: when a frame has the same energy c as the frame before it, the distance
\* |c - rollingAverage| is 0.9 times what it was (so it does not grow, and
\* shrinks while it is not 0), and the peak is not above the peak of the frame
\* before; a factor of 0.9 per frame takes both to 0.
C5_ConstantEnergyContracts ==
    (frames > 1 /\ energy = energyBefore) =>
        /\ RAbs(RSub(energy, beatEnergyAvgRef)) = RMul(Rat(9, 10), RAbs(RSub(energy, prev)))
        /\ RLe(RAbs(RSub(energy, beatEnergyAvgRef)), RAbs(RSub(energy, prev)))
        /\ RLe(beatBoost, boostBefore)
        /\ (prev # energy => RLt(RAbs(RSub(energy, beatEnergyAvgRef)), RAbs(RSub(energy, prev))))
        /\ (RLt(Zero, boostBefore) => RLt(beatBoost, boostBefore))

\* two frames in a row at full energy, the average still on its way up
C5_Witness ==
    /\ frames > 1
    /\ frameBound
    /\ energy = One /\ energyBefore = One
    /\ RLt(beatEnergyAvgRef, One)
    /\ RLt(Zero, beatBoost) /\ RLt(beatBoost, boostBefore)

\* C6: on a frame whose energy is above the rolling average it found, the peak
\* is positive and equals 2.2 * 0.9 * (energy - previous average); so a jump
\* from energy 0 to 1 gives a positive peak on that frame.
C6_PeakOnRise ==
    (frames > 0 /\ frameBound /\ RLt(prev, energy)) =>
        /\ RLt(Zero, beatBoost)
        /\ beatBoost = RMul(RMul(Rat(22, 10), Rat(9, 10)), RSub(energy, prev))

\* a frame at energy 1 right after a frame of silence, the average still 0
C6_Witness ==
    /\ frames > 1
    /\ frameBound
    /\ frameData.length > 0
    /\ energyBefore = Zero /\ energy = One
    /\ prev = Zero
    /\ beatBoost = Rat(198, 100)

\* C7: after any frames (bins in 0..255) the rolling energy average is in
\* [0,1] and the peak of the latest frame is >= 0.
C7_BeatStateRange ==
    /\ RLe(Zero, beatEnergyAvgRef) /\ RLe(beatEnergyAvgRef, One)
    /\ RLe(Zero, beatBoost)
    /\ RLe(Zero, energy) /\ RLe(energy, One)

\* a frame of silence after a loud one: the energy is below the average
C7_Witness ==
    /\ frames > 1
    /\ frameBound
    /\ energy = Zero
    /\ RLt(Zero, beatEnergyAvgRef)
    /\ beatBoost = Zero /\ RLt(Zero, boostBefore)

\* C8: when every bin of the spectrum a frame read is 0, its energy is 0 and
\* every bar has r1 = r0 = 0.8 * innerRadius, for every sensitivity, segment
\* count and prior rolling average.
C8_SilenceDrawsNoBars ==
    (frames > 0 /\ frameBound /\ AllZero(frameData)) =>
        /\ energy = Zero
        /\ \A j \in DOMAIN barLines :
              /\ barLines[j].r1 = barLines[j].r0
              /\ barLines[j].r0 = RMul(Rat(8, 10), InnerRadius(frameCanvas))

\* a frame of silence on a canvas that is not empty, after a loud frame, with
\* the sensitivity and the segment count changed
C8_Witness ==
    /\ frames > 1
    /\ frameBound /\ AllZero(frameData)
    /\ RLt(Zero, prev)
    /\ MinDim(frameCanvas) > 0
    /\ barLines[0].r0 = Rat(48, 10) /\ barLines[bars - 1].r1 = Rat(48, 10)
    /\ \/ frameParams.sensitivity # DEFAULT_PARAMS.sensitivity
       \/ frameParams.segments # DEFAULT_PARAMS.segments

\* C9: a frame that finds no analyser bound (no start request completed yet)
\* uses energy 0 and peak 0, reads 0 for every bar, leaves the rolling average
\* as it was and advances the rotation by exactly rotationSpeed * dt.
C9_SilentWithoutAnalyser ==
    (frames > 0 /\ ~frameBound) =>
        /\ energy = Zero /\ beatBoost = Zero
        /\ \A j \in DOMAIN barLines :
              /\ barLines[j].byte = 0
              /\ barLines[j].r1 = barLines[j].r0
        /\ beatEnergyAvgRef = prev
        /\ rotationRef = RAdd(rotationBefore, RMul(frameParams.rotationSpeed, dt))

\* a frame drawn while the sample load still awaits audio.play()
C9_Witness ==
    /\ frames > 0
    /\ ~frameBound
    /\ \E i \in DOMAIN requests : requests[i].pc = "play"
    /\ analyserRef = 0
    /\ RLt(Zero, dt)
    /\ RLt(rotationBefore, rotationRef)
    /\ DOMAIN barLines = 0..(bars - 1)

(***************************************************************************)
(* Properties of the audio session (SpecSession).                          *)
(***************************************************************************)
\* the log read from entry k on, with the sources in live connected: every
\* connect finds no source connected
RECURSIVE Exclusive(_, _, _)
Exclusive(lg, k, live) ==
    IF k > Len(lg) THEN live = ConnectedSources(connections)
    ELSE IF lg[k][1] = "connect"
         THEN live = {} /\ Exclusive(lg, k + 1, {lg[k][2]})
         ELSE Exclusive(lg, k + 1, live \ {lg[k][2]})

\* C10: after any start requests, in any interleaving, at most one source node
\* is connected to an analyser, and a request that binds a new source node
\* disconnects the node bound before it connects the new one.
C10_OneSourceBound ==
    /\ Cardinality(ConnectedSources(connections)) <= 1
    /\ ConnectedSources(connections) \subseteq {srcNodeRef}
    /\ Exclusive(log, 1, {})

\* the microphone took over from the audio element
C10_Witness ==
    /\ Len(nodes) = 2
    /\ nodes[1] = "element" /\ nodes[2] = "stream"
    /\ srcNodeRef = 2
    /\ ConnectedSources(connections) = {2}
    /\ log = <<<<"connect", 1>>, <<"disconnect", 1>>, <<"connect", 2>>>>

\* C11: every start request is past ensureContext before it plays the element
\* or creates or connects a source, and then a context exists and is running;
\* the context is created at most once over all start requests.
C11_ContextReadyBeforeSources ==
    /\ ctxCreated <= 1
    /\ (ctxCreated = 0) = (audioCtxRef = "null")
    /\ \A i \in DOMAIN requests :
          requests[i].pc # "resume" => audioCtxRef = "running"
    /\ (nodes # <<>> \/ connections # {} \/ analysers # <<>> \/ ~audioEl.paused
          \/ audioEl.src # "")
       => /\ audioCtxRef = "running"
          /\ \E i \in DOMAIN requests : requests[i].pc # "resume"

\* three requests shared one context, two of them waited for the same resume,
\* and two sources were created after it
C11_Witness ==
    /\ Len(requests) = 3
    /\ ctxCreated = 1
    /\ audioCtxRef = "running"
    /\ Len(nodes) = 2
    /\ \E i \in DOMAIN requests : requests[i].pc = "resume"

\* the source node bound to the current analyser is a microphone stream node
MicBound ==
    /\ srcNodeRef # 0
    /\ nodes[srcNodeRef] = "stream"
    /\ <<srcNodeRef, analyserRef>> \in connections

\* C19: once every start request has run to its end, in any interleaving of
\* startMic and playFromElement, usingMic is true exactly when the source
\* bound to the analyser is the microphone stream node.
C19_UsingMicMatchesSource ==
    (requests # <<>> /\ \A i \in DOMAIN requests : requests[i].pc = "done")
        => (usingMic = MicBound)

(***************************************************************************)
(* The frame buffer and the resolution.                                    *)
(***************************************************************************)
\* C12: on every frame that reads the spectrum, the length of the frame buffer
\* is half of the fftSize of the current params, also when the resolution was
\* changed before an analyser was bound or while a start request was awaiting.
C12_FrameBufferMatchesParams ==
    frameBound => frameData.length * 2 = frameParams.fftSize

(***************************************************************************)
(* Properties of the life of the animation loop (SpecLoop).                *)
(***************************************************************************)
\* C13: at any time at most one animation-frame request is pending: a parameter
\* change or the unmount cancels the pending request before a new loop asks
\* for its first one, so draw runs at most once per display refresh.
C13_OnePendingFrame ==
    /\ Cardinality(rafQueue) <= 1
    /\ \A q \in rafQueue : q.id = animationRef /\ q.params = params
    /\ mounted => rafQueue # {}
    /\ ~mounted => rafQueue = {}

\* a frame of the loop that a parameter change restarted has run
C13_Witness ==
    /\ paramChanges = MaxParamChanges
    /\ frames >= 2
    /\ params # DEFAULT_PARAMS
    /\ frameParams = params
    /\ Cardinality(rafQueue) = 1

\* stopAudio was the last thing done to the audio element
Paused == mounted /\ ~isPlaying /\ audioEl.paused /\ audioEl.src # ""

\* C14: pausing stops the render loop: while paused no frame is rendered and
\* the rotation keeps its value.
C14_NoFrameWhilePaused ==
    [][Paused => (frames' = frames /\ rotationRef' = rotationRef)]_vars

\* C17: a switch of the bound audio source starts the rolling energy average
\* again from 0.
C17_SourceSwitchResetsAverage ==
    [][srcNodeRef' # srcNodeRef => beatEnergyAvgRef' = Zero]_vars

(***************************************************************************)
(* The canvas.                                                             *)
(***************************************************************************)
\* C15: a frame that finds the canvas width or height 0 is skipped: it issues
\* no drawing operation (no wedge is set up, no bar is stroked).
C15_ZeroCanvasSkipsFrame ==
    (frames > 0 /\ (frameCanvas[1] = 0 \/ frameCanvas[2] = 0))
        => (wedges = <<>> /\ barLines = <<>>)

WedgeAt(k) == wedges[k + 1]
NextWedge(k) == wedges[((k + 1) % Len(wedges)) + 1]

\* C18: with mirror enabled a wedge is mirrored exactly when its index is odd,
\* and any two angularly adjacent wedges, the last one and wedge 0 included,
\* differ in mirroring; with mirror disabled no wedge is mirrored.
C18_AdjacentWedgesAlternate ==
    frames > 0 =>
        \A k \in 0..(Len(wedges) - 1) :
            /\ WedgeAt(k).index = k
            /\ WedgeAt(k).mirrored = (frameParams.mirror /\ k % 2 = 1)
            /\ frameParams.mirror => WedgeAt(k).mirrored # NextWedge(k).mirrored

\* Math.floor(t * length) for bar j, t = j / (bars - 1)
FloorOfPosition(j, length) == Floor(RMul(Rat(j, bars - 1), Rat(length, 1)))

\* C20 as stated: every bar of a frame that has a buffer reads the spectrum at
\* floor(t * length), and that is an index of the buffer.
C20_IndexIsFloor ==
    (frames > 0 /\ frameData # Null) =>
        \A j \in 0..(bars - 1) :
            /\ barLines[j].idx = FloorOfPosition(j, frameData.length)
            /\ barLines[j].idx \in 0..(frameData.length - 1)

\* C20, amended: every frame draws 96 bars per wedge whatever the segment
\* count; bar j reads the spectrum at min(length - 1, floor(t * length)), which
\* is floor(t * length) for every bar but the last, where the floor is length
\* and the index read is length - 1; the index is always within the buffer.
C20_IndexIsClampedFloor ==
    frames > 0 =>
        /\ DOMAIN barLines = 0..(bars - 1)
        /\ frameData # Null =>
              \A j \in 0..(bars - 1) :
                 LET f == FloorOfPosition(j, frameData.length)
                     idx == barLines[j].idx
                 IN  /\ idx = IMin(frameData.length - 1, f)
                     /\ idx \in 0..(frameData.length - 1)
                     /\ j < bars - 1 => idx = f
                     /\ j = bars - 1 => (f = frameData.length /\ idx = frameData.length - 1)

\* a frame over the longest spectrum the FFT select gives
C20_Witness ==
    /\ frameBound
    /\ frameData.length = 4096
    /\ barLines[bars - 1].idx = 4095
    /\ barLines[1].idx = 43

====
